---- MODULE Spec2Model ----
(***************************************************************************)
(* A model of the feature pipeline of src/src/data_processing.py           *)
(* (clean_grid, add_race_features, attach_status_text, add_dnf_dns_flags,  *)
(* _time_sort, add_time_aware_aggregates, final_clean, get_train_medians). *)
(*                                                                         *)
(* A table (pandas DataFrame) is a non-empty sequence of rows; a row is a  *)
(* function from column names to values, so "c \in Cols(df)" is the code's *)
(* "c in df.columns".  Identifier columns hold integers.  Every other      *)
(* column holds a cell [t, n, d, s]:                                       *)
(*   t = "num"  the number n/d (d > 0, lowest terms)                       *)
(*   t = "sqrt" the irrational number sqrt(n/d)                            *)
(*   t = "mid"  the midpoint of the two cells in s                         *)
(*   t = "nan"  a missing number (NaN / None)                              *)
(*   t = "str"  the text s, a sequence of characters                       *)
(*   t = "date" the calendar day number n                                  *)
(*   t = "nat"  a missing date (NaT)                                       *)
(* Floating point is modelled by exact arithmetic.  The column "row" is    *)
(* the identity of the input row (its position in the table handed to the  *)
(* pipeline); no operation reads it.                                       *)
(***************************************************************************)
EXTENDS Integers, Sequences, FiniteSets, TLC

VARIABLES df, prev, status_df, last, applied, medians, medians_arg, split,
          passed

vars ==
    <<df, prev, status_df, last, applied, medians, medians_arg, split, passed>>

(***************************************************************************)
(* Bounds of the model.                                                    *)
(***************************************************************************)
MaxRows == 3

(***************************************************************************)
(* Cells.                                                                  *)
(***************************************************************************)
\* The sequence f as a tuple of values.
Frame(f) == f \o <<>>

RECURSIVE GCD(_, _)
GCD(a, b) == IF b = 0 THEN a ELSE GCD(b, a % b)

Abs(x) == IF x < 0 THEN -x ELSE x

NaN == [t |-> "nan", n |-> 0, d |-> 1, s |-> <<>>]
NaT == [t |-> "nat", n |-> 0, d |-> 1, s |-> <<>>]
Str(chars) == [t |-> "str", n |-> 0, d |-> 1, s |-> chars]
Date(day) == [t |-> "date", n |-> day, d |-> 1, s |-> <<>>]

\* The number n/d in lowest terms, d # 0.
Rat(n, d) ==
    LET g == GCD(Abs(n), Abs(d))
        sgn == IF d < 0 THEN -1 ELSE 1
    IN  [t |-> "num", n |-> sgn * (n \div g), d |-> sgn * (d \div g), s |-> <<>>]

Num(n) == Rat(n, 1)

IsNum(c) == c.t = "num"
\* pandas isna / notna
IsNA(c) == c.t \in {"nan", "nat"}
NotNA(c) == ~IsNA(c)

RatAdd(a, b) == Rat(a.n * b.d + b.n * a.d, a.d * b.d)
RatSub(a, b) == Rat(a.n * b.d - b.n * a.d, a.d * b.d)
RatMul(a, b) == Rat(a.n * b.n, a.d * b.d)
RatDivInt(a, k) == Rat(a.n, a.d * k)
RatLess(a, b) == a.n * b.d < b.n * a.d
RatLeq(a, b) == a.n * b.d <= b.n * a.d

\* Sum of a sequence of "num" cells.
RECURSIVE RatSum(_)
RatSum(xs) == IF xs = <<>> THEN Num(0) ELSE RatAdd(Head(xs), RatSum(Tail(xs)))

\* numpy/pandas mean and population variance of a non-empty sequence of numbers.
Mean(xs) == RatDivInt(RatSum(xs), Len(xs))
PopVar(xs) ==
    LET m == Mean(xs)
        sq == Frame([i \in 1..Len(xs) |->
                       RatMul(RatSub(xs[i], m), RatSub(xs[i], m))])
    IN  Mean(sq)

\* Integer square root (largest r with r*r <= k).
RECURSIVE ISqrtFrom(_, _)
ISqrtFrom(k, r) == IF (r + 1) * (r + 1) > k THEN r ELSE ISqrtFrom(k, r + 1)
ISqrt(k) == ISqrtFrom(k, 0)

\* Square root of a non-negative rational: a number when both terms are
\* perfect squares, the symbolic cell sqrt(n/d) otherwise.
Sqrt(q) ==
    LET rn == ISqrt(q.n)
        rd == ISqrt(q.d)
    IN  IF rn * rn = q.n /\ rd * rd = q.d
        THEN Rat(rn, rd)
        ELSE [t |-> "sqrt", n |-> q.n, d |-> q.d, s |-> <<>>]

\* Order of the non-negative values "num" and "sqrt" (used by the median).
\* A "num" may be negative; a "sqrt" never is.
Square(c) == IF c.t = "sqrt" THEN Rat(c.n, c.d) ELSE RatMul(c, c)
ValLess(a, b) ==
    IF a.t = "num" /\ b.t = "num" THEN RatLess(a, b)
    ELSE IF a.t = "num" /\ a.n < 0 THEN TRUE
    ELSE IF b.t = "num" /\ b.n < 0 THEN FALSE
    ELSE RatLess(Square(a), Square(b))

\* (a + b) / 2
Midpoint(a, b) ==
    IF a = b THEN a
    ELSE IF a.t = "num" /\ b.t = "num" THEN RatDivInt(RatAdd(a, b), 2)
    ELSE [t |-> "mid", n |-> 0, d |-> 1, s |-> <<a, b>>]

(***************************************************************************)
(* Tables.                                                                 *)
(***************************************************************************)
Cols(t) == DOMAIN t[1]

\* out[c] = v on one row
With(r, c, v) == (c :> v) @@ r

\* out[c] = f(row) on every row
SetCol(t, c, f(_)) == Frame([i \in 1..Len(t) |-> With(t[i], c, f(t[i]))])

\* df[mask]: the rows that satisfy keep, in order
SelectRows(t, keep(_)) == SelectSeq(t, keep)

\* The non-missing values of a column, in row order.
Present(t, c) ==
    LET ok(r) == NotNA(r[c])
        rows == SelectSeq(t, ok)
    IN  Frame([i \in 1..Len(rows) |-> rows[i][c]])

(***************************************************************************)
(* Coercions.  A text is a sequence of one-character strings.  The model's *)
(* numerals are unsigned decimal integers, and its calendar is the day     *)
(* number, written as a numeral when a date arrives as text.               *)
(***************************************************************************)
Digits == <<"0", "1", "2", "3", "4", "5", "6", "7", "8", "9">>
IsDigit(ch) == \E k \in 1..10 : Digits[k] = ch
DigitVal(ch) == (CHOOSE k \in 1..10 : Digits[k] = ch) - 1

RECURSIVE ParseDigits(_, _)
ParseDigits(chars, acc) ==
    IF chars = <<>> THEN acc
    ELSE ParseDigits(Tail(chars), 10 * acc + DigitVal(Head(chars)))

IsNumeral(chars) == chars # <<>> /\ \A k \in 1..Len(chars) : IsDigit(chars[k])

\* pd.to_numeric(x, errors="coerce") on one value
to_numeric(c) ==
    IF c.t \in {"num", "sqrt", "mid"} THEN c
    ELSE IF c.t = "str" /\ IsNumeral(c.s) THEN Num(ParseDigits(c.s, 0))
    ELSE NaN

\* pd.to_datetime(x, errors="coerce") on one value
to_datetime(c) ==
    IF c.t = "date" THEN c
    ELSE IF c.t = "str" /\ IsNumeral(c.s) THEN Date(ParseDigits(c.s, 0))
    ELSE NaT

\* Series.fillna(v) on one value
fillna(c, v) == IF IsNA(c) THEN v ELSE c

(***************************************************************************)
(* clean_grid                                                              *)
(***************************************************************************)
\* No replacement of the sentinel.
ReplaceNothing(c) == c

\* Series.replace(0, np.nan) on one value
ReplaceZero(c) == IF c.t = "num" /\ c.n = 0 THEN NaN ELSE c

clean_grid(t) ==
    LET coerce(r) == to_numeric(r.grid)
        out == SetCol(t, "grid", coerce)
        clean(r) == ReplaceZero(r.grid)
    IN  SetCol(out, "grid_clean", clean)

(***************************************************************************)
(* _time_sort                                                              *)
(***************************************************************************)
\* Ascending order of one sort key with na_position="last".
DateLess(x, y) ==
    IF x.t = "nat" THEN FALSE
    ELSE IF y.t = "nat" THEN TRUE
    ELSE x.n < y.n

\* A sort on the date alone, without the raceId tie-break.
SortBeforeDateOnly(a, b) == DateLess(a.date, b.date)

\* a sorts strictly before b under sort_values(["date", "raceId"])
SortBefore(a, b) ==
    \/ DateLess(a.date, b.date)
    \/ a.date = b.date /\ a.raceId < b.raceId

\* Stable insertion: r goes after every row that does not sort after it.
RECURSIVE Insert(_, _)
Insert(sorted, r) ==
    IF sorted = <<>> THEN <<r>>
    ELSE IF SortBefore(r, Head(sorted)) THEN <<r>> \o sorted
    ELSE <<Head(sorted)>> \o Insert(Tail(sorted), r)

\* sort_values(["date", "raceId"], kind="mergesort").reset_index(drop=True)
RECURSIVE SortValues(_)
SortValues(t) ==
    IF t = <<>> THEN <<>>
    ELSE Insert(SortValues(SubSeq(t, 1, Len(t) - 1)), t[Len(t)])

_time_sort(t) ==
    LET parse(r) == to_datetime(r.date)
    IN  SortValues(SetCol(t, "date", parse))

(***************************************************************************)
(* groupby / expanding / shift / transform                                 *)
(***************************************************************************)
\* The values of column c over the rows of t whose column g equals that of
\* row i, in table order (the Series the groupby hands to transform).
GroupSeries(t, g, c, i) ==
    LET same(r) == r[g] = t[i][g]
        rows == SelectSeq(t, same)
    IN  Frame([k \in 1..Len(rows) |-> rows[k][c]])

\* The position (from 1) of row i inside its group.
GroupPos(t, g, i) == Cardinality({j \in 1..i : t[j][g] = t[i][g]})

\* A count of all preceding rows, not of those of the group.
cumcountAll(t, g, i) == Num(i - 1)

\* groupby(g).cumcount()
cumcount(t, g, i) == Num(GroupPos(t, g, i) - 1)

\* xs[1..k] with every missing value counted as 0.
WindowZeroFilled(xs, k) ==
    Frame([j \in 1..k |-> fillna(xs[j], Num(0))])

\* The non-missing values among xs[1..k].
Window(xs, k) ==
    LET ok(c) == NotNA(c)
    IN  SelectSeq(SubSeq(xs, 1, k), ok)

\* s.expanding().mean(): at k, the mean of the non-missing values so far
ExpandingMean(xs) ==
    [k \in 1..Len(xs) |->
        IF Window(xs, k) = <<>> THEN NaN ELSE Mean(Window(xs, k))]

\* s.expanding().std(ddof=0)
ExpandingStd(xs) ==
    [k \in 1..Len(xs) |->
        IF Window(xs, k) = <<>> THEN NaN ELSE Sqrt(PopVar(Window(xs, k)))]

\* s.shift(1)
Shift(xs) == [k \in 1..Len(xs) |-> IF k = 1 THEN NaN ELSE xs[k - 1]]

\* The expanding mean without the shift: the current row leaks in.
PastMeanLeak(xs) == ExpandingMean(xs)

\* lambda s: s.expanding().mean().shift(1)
PastMean(xs) == Shift(ExpandingMean(xs))

\* lambda s: s.expanding().std(ddof=0).shift(1)
PastStd(xs) == Shift(ExpandingStd(xs))

\* t[c] = groupby(g)[src].transform(f)
Transform(t, g, src, c, f(_)) ==
    Frame([i \in 1..Len(t) |->
            With(t[i], c, f(GroupSeries(t, g, src, i))[GroupPos(t, g, i)])])

(***************************************************************************)
(* add_time_aware_aggregates                                               *)
(***************************************************************************)
\* Driver aggregates (lines 134-157).
DriverAggregates(t) ==
    LET sorted == _time_sort(t)
        pts(r) == fillna(to_numeric(r.points), Num(0))
        pos(r) == to_numeric(r.positionOrder)
        out == SetCol(SetCol(sorted, "points", pts), "positionOrder", pos)
        counted == Frame([i \in 1..Len(out) |->
                      With(out[i], "driver_races_past", cumcount(out, "driverId", i))])
        avg == Transform(counted, "driverId", "points",
                         "driver_avg_points_past", PastMean)
    IN  Transform(avg, "driverId", "positionOrder",
                  "driver_consistency_past", PastStd)

\* The keys of groupby(["constructorId", "raceId", "date"]): a row whose date
\* is missing belongs to no group (dropna=True).
GroupKeys(t) ==
    {<<t[i].constructorId, t[i].raceId, t[i].date.n>> :
        i \in {j \in 1..Len(t) : NotNA(t[j].date)}}

KeyLess(a, b) ==
    \/ a[1] < b[1]
    \/ a[1] = b[1] /\ a[2] < b[2]
    \/ a[1] = b[1] /\ a[2] = b[2] /\ a[3] < b[3]

\* The group keys in ascending order (groupby sorts its keys).
RECURSIVE SortedKeys(_)
SortedKeys(ks) ==
    IF ks = {} THEN <<>>
    ELSE LET m == CHOOSE k \in ks : \A o \in ks \ {k} : KeyLess(k, o)
         IN  <<m>> \o SortedKeys(ks \ {m})

\* One row of cons_race: the sum of points and the mean of the non-missing
\* positionOrder over the rows of the group.
AggRow(t, key) ==
    LET member(r) == /\ r.constructorId = key[1]
                     /\ r.raceId = key[2]
                     /\ r.date = Date(key[3])
        rows == SelectSeq(t, member)
        pts == Frame([k \in 1..Len(rows) |-> rows[k].points])
        fin == Present(rows, "positionOrder")
    IN  [constructorId |-> key[1], raceId |-> key[2], date |-> Date(key[3]),
         constructor_points |-> RatSum(pts),
         constructor_mean_finish |-> IF fin = <<>> THEN NaN ELSE Mean(fin)]

\* Step 1 (lines 171-179): cons_race
ConsRace(t) ==
    LET ks == SortedKeys(GroupKeys(t))
    IN  SortValues(Frame([k \in 1..Len(ks) |-> AggRow(t, ks[k])]))

\* Step 2 (lines 182-195): expanding statistics within each constructor
ConsPast(t) ==
    LET cons == ConsRace(t)
        counted == Frame([i \in 1..Len(cons) |->
                      With(cons[i], "constructor_races_past",
                           cumcount(cons, "constructorId", i))])
        strength == Transform(counted, "constructorId", "constructor_points",
                              "constructor_strength_past", PastMean)
    IN  Transform(strength, "constructorId", "constructor_mean_finish",
                  "constructor_avg_finish_past", PastMean)

\* The output rows of a left merge for one left row: one per matching right
\* row, in the order of the right table, or one with missing values.
MergeRow(r, right) ==
    LET match(c) == c.constructorId = r.constructorId /\ c.raceId = r.raceId
        hits == SelectSeq(right, match)
        add(c) == With(With(With(r,
                    "constructor_races_past", c.constructor_races_past),
                    "constructor_strength_past", c.constructor_strength_past),
                    "constructor_avg_finish_past", c.constructor_avg_finish_past)
        none == [constructor_races_past |-> NaN,
                 constructor_strength_past |-> NaN,
                 constructor_avg_finish_past |-> NaN]
    IN  IF hits = <<>> THEN <<add(none)>>
        ELSE Frame([k \in 1..Len(hits) |-> add(hits[k])])

\* Step 3 (lines 198-208): out.merge(cons_race[...], on=[constructorId, raceId], how="left")
RECURSIVE MergeLeft(_, _)
MergeLeft(left, right) ==
    IF left = <<>> THEN <<>>
    ELSE MergeRow(Head(left), right) \o MergeLeft(Tail(left), right)

add_time_aware_aggregates(t) ==
    LET out == DriverAggregates(t)
    IN  MergeLeft(out, ConsPast(out))

(***************************************************************************)
(* add_race_features                                                       *)
(***************************************************************************)
\* a - b on two numeric values; missing when either is missing
Minus(a, b) == IF a.t = "num" /\ b.t = "num" THEN RatSub(a, b) ELSE NaN

\* (positionOrder <= 3).astype(int): a comparison with NaN is False
Podium(pos) == IF pos.t = "num" /\ RatLeq(pos, Num(3)) THEN Num(1) ELSE Num(0)

add_race_features(t) ==
    LET pos(r) == to_numeric(r.positionOrder)
        pts(r) == to_numeric(r.points)
        out == SetCol(SetCol(t, "positionOrder", pos), "points", pts)
        grid == IF "grid_clean" \notin Cols(out) THEN clean_grid(out) ELSE out
        gain(r) == Minus(r.grid_clean, r.positionOrder)
        pod(r) == Podium(r.positionOrder)
    IN  SetCol(SetCol(grid, "position_gain", gain), "is_podium", pod)

(***************************************************************************)
(* attach_status_text                                                      *)
(***************************************************************************)
\* The output rows of the left merge on statusId for one row.
StatusRow(r, lookup) ==
    LET match(q) == q.statusId = r.statusId
        hits == SelectSeq(lookup, match)
    IN  IF hits = <<>> THEN <<With(r, "status_text", NaN)>>
        ELSE Frame([k \in 1..Len(hits) |-> With(r, "status_text", hits[k].status)])

RECURSIVE StatusMerge(_, _)
StatusMerge(left, lookup) ==
    IF left = <<>> THEN <<>>
    ELSE StatusRow(Head(left), lookup) \o StatusMerge(Tail(left), lookup)

attach_status_text(t, lookup) ==
    IF "statusId" \notin Cols(t) THEN t ELSE StatusMerge(t, lookup)

(***************************************************************************)
(* add_dnf_dns_flags                                                       *)
(***************************************************************************)
UpperCase == <<"A", "B", "C", "D", "E", "F", "G", "H", "I", "J", "K", "L", "M",
               "N", "O", "P", "Q", "R", "S", "T", "U", "V", "W", "X", "Y", "Z">>
LowerCase == <<"a", "b", "c", "d", "e", "f", "g", "h", "i", "j", "k", "l", "m",
               "n", "o", "p", "q", "r", "s", "t", "u", "v", "w", "x", "y", "z">>

LowerChar(ch) ==
    IF \E k \in 1..26 : UpperCase[k] = ch
    THEN LowerCase[CHOOSE k \in 1..26 : UpperCase[k] = ch]
    ELSE ch

\* str.lower()
Lower(chars) == Frame([k \in 1..Len(chars) |-> LowerChar(chars[k])])

\* str.contains(sub)
Contains(chars, sub) ==
    \E k \in 1..(Len(chars) - Len(sub) + 1) :
        SubSeq(chars, k, k + Len(sub) - 1) = sub

\* astype(str) on one value of status_text: a missing value becomes "nan"
AsText(c) == IF c.t = "str" THEN c.s ELSE <<"n", "a", "n">>

\* "finished", "classified", "did not start"
TextFinished == <<"f", "i", "n", "i", "s", "h", "e", "d">>
TextClassified == <<"c", "l", "a", "s", "s", "i", "f", "i", "e", "d">>
TextDidNotStart ==
    <<"d", "i", "d", " ", "n", "o", "t", " ", "s", "t", "a", "r", "t">>

\* bool.astype(int)
AsInt(b) == IF b THEN Num(1) ELSE Num(0)

IsFinishedText(c) == Lower(AsText(c)) \in {TextFinished, TextClassified}
IsDnsText(c) == Contains(Lower(AsText(c)), TextDidNotStart)
\* Everything that is not finished, a did-not-start included.
IsNotFinishedText(c) == ~IsFinishedText(c)

IsDnfText(c) == ~IsFinishedText(c) /\ ~IsDnsText(c)

add_dnf_dns_flags(t) ==
    LET zero(r) == Num(0)
        out == SetCol(SetCol(SetCol(t, "is_finished", zero), "is_dnf", zero),
                      "is_dns", zero)
        fin(r) == AsInt(IsFinishedText(r.status_text))
        dns(r) == AsInt(IsDnsText(r.status_text))
        dnf(r) == AsInt(IsDnfText(r.status_text))
        present(r) == AsInt(NotNA(r.positionOrder))
    IN  IF "status_text" \in Cols(out)
        THEN SetCol(SetCol(SetCol(out, "is_finished", fin), "is_dns", dns),
                    "is_dnf", dnf)
        ELSE IF "positionOrder" \in Cols(out)
             THEN SetCol(out, "is_finished", present)
             ELSE out

(***************************************************************************)
(* final_clean                                                             *)
(***************************************************************************)
RECURSIVE InsertVal(_, _)
InsertVal(sorted, v) ==
    IF sorted = <<>> THEN <<v>>
    ELSE IF ValLess(v, Head(sorted)) THEN <<v>> \o sorted
    ELSE <<Head(sorted)>> \o InsertVal(Tail(sorted), v)

RECURSIVE SortVals(_)
SortVals(xs) ==
    IF xs = <<>> THEN <<>>
    ELSE InsertVal(SortVals(Tail(xs)), Head(xs))

\* Series.median(): missing values are skipped; missing when none is left
Median(t, c) ==
    LET xs == SortVals(Present(t, c))
        n == Len(xs)
    IN  IF n = 0 THEN NaN
        ELSE IF n % 2 = 1 THEN xs[(n + 1) \div 2]
        ELSE Midpoint(xs[n \div 2], xs[n \div 2 + 1])

\* float.astype(int): truncation towards zero
AsTypeInt(c) ==
    IF c.n >= 0 THEN Num(c.n \div c.d) ELSE Num(-((-c.n) \div c.d))

\* train_medians is a function from column names to values; None is the
\* function with the empty domain.
NoMedians == <<>>

FillZero(t, c) ==
    LET f(r) == fillna(to_numeric(r[c]), Num(0))
    IN  IF c \in Cols(t) THEN SetCol(t, c, f) ELSE t

\* A fill that ignores train_medians: always the column's own median.
FillMedianOwn(t, c, train_medians) ==
    LET num(r) == to_numeric(r[c])
        out == SetCol(t, c, num)
        own(r) == fillna(r[c], Median(out, c))
    IN  IF c \notin Cols(t) THEN t ELSE SetCol(out, c, own)

FillMedian(t, c, train_medians) ==
    LET num(r) == to_numeric(r[c])
        out == SetCol(t, c, num)
        given(r) == fillna(r[c], train_medians[c])
        own(r) == fillna(r[c], Median(out, c))
    IN  IF c \notin Cols(t) THEN t
        ELSE IF c \in DOMAIN train_medians THEN SetCol(out, c, given)
        ELSE SetCol(out, c, own)

\* No cast: the flag column as it is.
FlagUntouched(t, c) == t

FlagInt(t, c) ==
    LET f(r) == AsTypeInt(fillna(to_numeric(r[c]), Num(0)))
    IN  IF c \in Cols(t) THEN SetCol(t, c, f) ELSE t

final_clean(t, train_medians) ==
    LET zeroed == FillZero(FillZero(t, "driver_avg_points_past"),
                           "constructor_strength_past")
        filled == FillMedian(FillMedian(zeroed, "driver_consistency_past",
                                        train_medians),
                             "constructor_avg_finish_past", train_medians)
        grid == IF "grid_clean" \notin Cols(filled) THEN clean_grid(filled)
                ELSE filled
    IN  FlagInt(FlagInt(FlagInt(FlagInt(grid, "is_finished"), "is_dnf"),
                        "is_dns"), "is_podium")

(***************************************************************************)
(* get_train_medians                                                       *)
(***************************************************************************)
\* df[(df["year"] >= lo) & (df["year"] <= hi)]
TrainRows(t, lo, hi) ==
    LET inrange(r) == r.year >= lo /\ r.year <= hi
    IN  SelectRows(t, inrange)

MedianColumns == {"driver_consistency_past", "constructor_avg_finish_past"}

\* The call: its train_years, whether it raised, and the dictionary it
\* returned.  The only statement that can raise is the lookup df["year"].
get_train_medians(t, lo, hi) ==
    IF "year" \notin Cols(t)
    THEN [years |-> <<lo, hi>>, raised |-> TRUE, value |-> NoMedians]
    ELSE [years |-> <<lo, hi>>, raised |-> FALSE,
          value |-> [c \in MedianColumns \cap Cols(t) |->
                        Median(TrainRows(t, lo, hi), c)]]

(***************************************************************************)
(* time_based_split (src/src/models.py)                                    *)
(***************************************************************************)
\* astype("Int64") accepts whole numbers and missing values only.
IsWhole(c) == c.t = "nan" \/ (c.t = "num" /\ c.d = 1)

\* Series.between(lo, hi), both ends included
Between(c, lo, hi) ==
    c.t = "num" /\ RatLeq(Num(lo), c) /\ RatLeq(c, Num(hi))

\* df[cols]: the columns cols of every row, under the row's index
Project(t, cols) ==
    Frame([i \in 1..Len(t) |-> [c \in cols \cup {"row"} |-> t[i][c]]])

NoMessage == <<>>
NoTable == <<>>

\* The outcome of a call: the arguments, the exception raised ("none" when
\* the call returns), the values the exception's message is formatted
\* from, and the four tables returned.
Outcome(args, raised, message, train_df, test_df) ==
    [args |-> args, raised |-> raised, message |-> message,
     X_train |-> Project(train_df, args.feature_cols),
     X_test |-> Project(test_df, args.feature_cols),
     y_train |-> Project(train_df, {args.target_col}),
     y_test |-> Project(test_df, {args.target_col})]

time_based_split(t, feature_cols, target_col, year_col, train_years, test_years) ==
    LET args == [feature_cols |-> feature_cols, target_col |-> target_col,
                 year_col |-> year_col, train_years |-> train_years,
                 test_years |-> test_years]
        year(r) == to_numeric(r[year_col])
        tmp == SetCol(t, year_col, year)
        needed == feature_cols \cup {target_col, year_col}
        complete(r) == \A c \in needed : NotNA(r[c])
        kept == SelectSeq(tmp, complete)
        train_mask(r) == Between(r[year_col], train_years[1], train_years[2])
        test_mask(r) == Between(r[year_col], test_years[1], test_years[2])
        train_df == SelectSeq(kept, train_mask)
        test_df == SelectSeq(kept, test_mask)
    IN  IF year_col \notin Cols(t)
        THEN Outcome(args, "KeyError",
                     [year_col |-> year_col, columns |-> Cols(t)],
                     NoTable, NoTable)
        ELSE IF \E i \in 1..Len(tmp) : ~IsWhole(tmp[i][year_col])
        THEN Outcome(args, "TypeError", NoMessage, NoTable, NoTable)
        ELSE IF train_df = <<>> \/ test_df = <<>>
        THEN Outcome(args, "ValueError",
                     [train_rows |-> Len(train_df), test_rows |-> Len(test_df)],
                     NoTable, NoTable)
        ELSE Outcome(args, "none", NoMessage, train_df, test_df)

NoSplit ==
    [args |-> <<>>, raised |-> "none", message |-> NoMessage,
     X_train |-> NoTable, X_test |-> NoTable,
     y_train |-> NoTable, y_test |-> NoTable]

(***************************************************************************)
(* Objects.  A table is an object: heap[k] is the contents of object k and *)
(* out the object the stage's local name (out, tmp, train_df) is bound to, *)
(* 0 before it is bound.  A call starts on the heap of its caller, with    *)
(* the table passed as df in object 1 and the status lookup in object 2,   *)
(* and runs the stage's statements in order: a copy, rename, merge,        *)
(* sort_values, df[mask] or a nested call binds the name to a new object,  *)
(* an assignment out[c] = ... changes the object the name is bound to.     *)
(***************************************************************************)
TheTable == 1
TheLookup == 2

Objects(t, lookup) == [heap |-> <<t, lookup>>, out |-> 0]

Bound(m) == m.heap[m.out]

\* `out = df`: the name is bound to the object itself.
Alias(m, k) == [heap |-> m.heap, out |-> k]

\* out = <object k>.copy(): a new object with the contents of object k
CopyOf(m, k) == [heap |-> Append(m.heap, m.heap[k]), out |-> Len(m.heap) + 1]

\* out[c] = ... (one or more column assignments): the object bound to out
\* now holds `contents`
Assign(m, contents) == [heap |-> [m.heap EXCEPT ![m.out] = contents], out |-> m.out]

\* out = <a table made by merge, sort_values, rename or df[mask]>: a new
\* object holding `contents`
Rebind(m, contents) == [heap |-> Append(m.heap, contents), out |-> Len(m.heap) + 1]

\* clean_grid(<object k>) (lines 25-28)
ObjCleanGrid(m, k) ==
    LET copied == CopyOf(m, k)
    IN  Assign(copied, clean_grid(Bound(copied)))

\* The coercions of add_race_features (lines 41-42).
WrittenRaceFeatures(t) ==
    LET pos(r) == to_numeric(r.positionOrder)
        pts(r) == to_numeric(r.points)
    IN  SetCol(SetCol(t, "positionOrder", pos), "points", pts)

\* add_race_features(<object k>) (lines 39-56)
ObjAddRaceFeatures(m, k) ==
    LET copied == CopyOf(m, k)
        coerced == Assign(copied, WrittenRaceFeatures(Bound(copied)))
        grid == IF "grid_clean" \notin Cols(Bound(coerced))
                THEN ObjCleanGrid(coerced, coerced.out)
                ELSE coerced
    IN  Assign(grid, add_race_features(Bound(grid)))

\* status_df.rename(columns={"status": "status_text"}) (line 67)
Renamed(lookup) ==
    Frame([k \in 1..Len(lookup) |->
            [statusId |-> lookup[k].statusId, status_text |-> lookup[k].status]])

\* attach_status_text(<object k>, <object l>) (lines 64-69): the renamed
\* lookup is a copy, the merged table a new object
ObjAttachStatusText(m, k, l) ==
    LET t == m.heap[k]
        renamed == LET c == CopyOf(m, l) IN Assign(c, Renamed(Bound(c)))
        copied == CopyOf(renamed, k)
    IN  IF "statusId" \notin Cols(t) THEN CopyOf(m, k)
        ELSE Rebind(copied, attach_status_text(t, m.heap[l]))

\* add_dnf_dns_flags(<object k>) (lines 77-100)
ObjAddDnfDnsFlags(m, k) ==
    LET copied == CopyOf(m, k)
    IN  Assign(copied, add_dnf_dns_flags(Bound(copied)))

\* The parsed dates of _time_sort (line 111).
WrittenTimeSort(t) ==
    LET parse(r) == to_datetime(r.date)
    IN  SetCol(t, "date", parse)

\* _time_sort(<object k>) (lines 110-113): sort_values returns a new object
ObjTimeSort(m, k) ==
    LET copied == CopyOf(m, k)
        parsed == Assign(copied, WrittenTimeSort(Bound(copied)))
    IN  Rebind(parsed, SortValues(Bound(parsed)))

\* add_time_aware_aggregates(<object k>) (lines 134-210): the driver
\* columns are assigned to what _time_sort returned, the merge returns a
\* new object
ObjAddTimeAwareAggregates(m, k) ==
    LET sorted == ObjTimeSort(m, k)
        out == DriverAggregates(m.heap[k])
    IN  Rebind(Assign(sorted, out), MergeLeft(out, ConsPast(out)))

\* The fills of final_clean (lines 232-250).
WrittenFinalClean(t, train_medians) ==
    LET zeroed == FillZero(FillZero(t, "driver_avg_points_past"),
                           "constructor_strength_past")
    IN  FillMedian(FillMedian(zeroed, "driver_consistency_past", train_medians),
                   "constructor_avg_finish_past", train_medians)

\* The casts of the flags in final_clean (lines 257-259).
WrittenFlags(t) ==
    FlagInt(FlagInt(FlagInt(FlagInt(t, "is_finished"), "is_dnf"), "is_dns"),
            "is_podium")

\* final_clean(<object k>, train_medians) (lines 229-261)
ObjFinalClean(m, k, train_medians) ==
    LET copied == CopyOf(m, k)
        filled == Assign(copied, WrittenFinalClean(Bound(copied), train_medians))
        grid == IF "grid_clean" \notin Cols(Bound(filled))
                THEN ObjCleanGrid(filled, filled.out)
                ELSE filled
    IN  Assign(grid, WrittenFlags(Bound(grid)))

\* get_train_medians(<object k>) (lines 275-282): train_df = df[mask] is a
\* new object, nothing is assigned
ObjGetTrainMedians(m, k, lo, hi) ==
    IF "year" \notin Cols(m.heap[k]) THEN m
    ELSE Rebind(m, TrainRows(m.heap[k], lo, hi))

\* time_based_split(<object k>) (models.py lines 125-139), the name tmp:
\* unbound when line 126 raises; the copy, as copied, when the cast of line
\* 129 raises before its assignment; otherwise the year column is assigned
\* to the copy and dropna (line 133) returns a new object with the rows
\* that have every needed column.  train_df and test_df are other names.
ObjTimeBasedSplit(m, k, feature_cols, target_col, year_col) ==
    LET year(r) == to_numeric(r[year_col])
        copied == CopyOf(m, k)
        coerced == SetCol(Bound(copied), year_col, year)
        needed == feature_cols \cup {target_col, year_col}
        complete(r) == \A c \in needed : NotNA(r[c])
    IN  IF year_col \notin Cols(m.heap[k]) THEN m
        ELSE IF \E i \in 1..Len(coerced) : ~IsWhole(coerced[i][year_col])
        THEN copied
        ELSE Rebind(Assign(copied, coerced), SelectSeq(coerced, complete))

\* What the caller holds after the call: the two objects it passed and the
\* table the call returned.
Left(m) ==
    [df |-> m.heap[TheTable], status_df |-> m.heap[TheLookup],
     returned |-> IF m.out = 0 THEN <<>> ELSE Bound(m)]

\* The stage `name` run on the caller's table and lookup.
Passed(name, t, lookup, train_medians) ==
    LET m == Objects(t, lookup)
    IN  Left(CASE name = "clean_grid" -> ObjCleanGrid(m, TheTable)
               [] name = "add_race_features" -> ObjAddRaceFeatures(m, TheTable)
               [] name = "attach_status_text" ->
                      ObjAttachStatusText(m, TheTable, TheLookup)
               [] name = "add_dnf_dns_flags" -> ObjAddDnfDnsFlags(m, TheTable)
               [] name = "_time_sort" -> ObjTimeSort(m, TheTable)
               [] name = "add_time_aware_aggregates" ->
                      ObjAddTimeAwareAggregates(m, TheTable)
               [] name = "final_clean" ->
                      ObjFinalClean(m, TheTable, train_medians))

(***************************************************************************)
(* The pipeline as a state machine.  df is the working table, prev the     *)
(* table the last call was given, last the name of the last call, applied  *)
(* the calls made so far, status_df the status lookup and medians the      *)
(* outcome of get_train_medians, medians_arg the train_medians given to    *)
(* final_clean, split the outcome of time_based_split and passed the       *)
(* caller's table and lookup as the last call left them.  The caller runs the stages in pipeline   *)
(* order, each at most once, and may skip any of them.  A call whose       *)
(* required columns are absent raises KeyError and returns no table: it is *)
(* not enabled.                                                            *)
(***************************************************************************)
Pipeline ==
    <<"clean_grid", "add_race_features", "attach_status_text",
      "add_dnf_dns_flags", "_time_sort", "add_time_aware_aggregates",
      "get_train_medians", "final_clean">>

Rank(name) == CHOOSE k \in 1..Len(Pipeline) : Pipeline[k] = name

InOrder(name) == \A a \in applied : Rank(a) < Rank(name)

NoResult == [years |-> <<0, 0>>, raised |-> FALSE, value |-> NoMedians]

\* The input tables of at most MaxRows rows over a set of rows; the column
\* "row" numbers the input rows.
Tables(rowset) ==
    LET raw == UNION {[1..n -> rowset] : n \in 1..MaxRows}
    IN  {Frame([i \in 1..Len(t) |-> With(t[i], "row", i)]) : t \in raw}

Start(tables, lookups) ==
    /\ df \in tables
    /\ prev = df
    /\ status_df \in lookups
    /\ last = "input"
    /\ applied = {}
    /\ medians = NoResult
    /\ medians_arg = NoMedians
    /\ split = NoSplit
    /\ passed = Left(Rebind(Objects(df, status_df), df))

Call(name, out) ==
    /\ InOrder(name)
    /\ df' = out
    /\ prev' = df
    /\ last' = name
    /\ applied' = applied \cup {name}
    /\ UNCHANGED status_df

CleanGrid ==
    /\ "grid" \in Cols(df)
    /\ Call("clean_grid", clean_grid(df))
    /\ passed' = Passed("clean_grid", df, status_df, NoMedians)
    /\ UNCHANGED <<medians, medians_arg, split>>

AddRaceFeatures ==
    /\ {"positionOrder", "points"} \subseteq Cols(df)
    /\ {"grid", "grid_clean"} \cap Cols(df) # {}
    /\ Call("add_race_features", add_race_features(df))
    /\ passed' = Passed("add_race_features", df, status_df, NoMedians)
    /\ UNCHANGED <<medians, medians_arg, split>>

AttachStatusText ==
    /\ "status_text" \notin Cols(df)
    /\ Call("attach_status_text", attach_status_text(df, status_df))
    /\ passed' = Passed("attach_status_text", df, status_df, NoMedians)
    /\ UNCHANGED <<medians, medians_arg, split>>

AddDnfDnsFlags ==
    /\ Call("add_dnf_dns_flags", add_dnf_dns_flags(df))
    /\ passed' = Passed("add_dnf_dns_flags", df, status_df, NoMedians)
    /\ UNCHANGED <<medians, medians_arg, split>>

TimeSort ==
    /\ {"date", "raceId"} \subseteq Cols(df)
    /\ Call("_time_sort", _time_sort(df))
    /\ passed' = Passed("_time_sort", df, status_df, NoMedians)
    /\ UNCHANGED <<medians, medians_arg, split>>

AggregateColumns ==
    {"date", "raceId", "driverId", "constructorId", "points", "positionOrder"}

AddTimeAwareAggregates ==
    /\ AggregateColumns \subseteq Cols(df)
    /\ Call("add_time_aware_aggregates", add_time_aware_aggregates(df))
    /\ passed' = Passed("add_time_aware_aggregates", df, status_df, NoMedians)
    /\ UNCHANGED <<medians, medians_arg, split>>

\* The dictionaries a caller makes of what get_train_medians returned: all
\* of it, the entry of one column, or none (train_medians=None).
MedianChoices ==
    {IF S = {} THEN NoMedians ELSE [c \in S |-> medians.value[c]] :
        S \in SUBSET DOMAIN medians.value}

\* final_clean(df) or final_clean(df, train_medians=...)
FinalClean ==
    /\ {"grid", "grid_clean"} \cap Cols(df) # {}
    /\ \E tm \in MedianChoices :
          /\ Call("final_clean", final_clean(df, tm))
          /\ medians_arg' = tm
          /\ passed' = Passed("final_clean", df, status_df, tm)
    /\ UNCHANGED <<medians, split>>

\* A second final_clean with the same train_medians, on what the first
\* returned.
FinalCleanAgain ==
    /\ last = "final_clean"
    /\ df' = final_clean(df, medians_arg)
    /\ prev' = df
    /\ last' = "final_clean_again"
    /\ passed' = Passed("final_clean", df, status_df, medians_arg)
    /\ UNCHANGED <<status_df, applied, medians, medians_arg, split>>

YearRanges == {<<1, 2>>, <<3, 4>>}

GetTrainMedians ==
    /\ InOrder("get_train_medians")
    /\ \E yr \in YearRanges :
          /\ medians' = get_train_medians(df, yr[1], yr[2])
          /\ passed' = Left(ObjGetTrainMedians(Objects(df, status_df), TheTable,
                                               yr[1], yr[2]))
    /\ prev' = df
    /\ last' = "get_train_medians"
    /\ applied' = applied \cup {"get_train_medians"}
    /\ UNCHANGED <<df, status_df, medians_arg, split>>

\* The year ranges of the calls: train years 1..2 against test years 3..3,
\* 2..3 (overlapping) and 4..5.
SplitYears == {<<1, 2>>}
SplitTestYears == {<<3, 3>>, <<2, 3>>, <<4, 5>>}

\* time_based_split(df, ["driver_avg_points_past"], "points", year_col, ...)
TimeBasedSplit ==
    /\ "time_based_split" \notin applied
    /\ {"driver_avg_points_past", "points"} \subseteq Cols(df)
    /\ \E yc \in {"year", "season"}, tr \in SplitYears, te \in SplitTestYears :
          /\ split' = time_based_split(df, {"driver_avg_points_past"},
                                       "points", yc, tr, te)
          /\ passed' = Left(ObjTimeBasedSplit(Objects(df, status_df), TheTable,
                                              {"driver_avg_points_past"},
                                              "points", yc))
    /\ prev' = df
    /\ last' = "time_based_split"
    /\ applied' = applied \cup {"time_based_split"}
    /\ UNCHANGED <<df, status_df, medians, medians_arg>>

(***************************************************************************)
(* The aggregation engine on driver histories: two drivers of one          *)
(* constructor, two races, two dates and an unparsable date.               *)
(***************************************************************************)
NoLookup == <<>>

DriverKeys ==
    {<<Date(1), 2>>, <<Date(2), 1>>, <<Date(2), 2>>, <<Str(<<"x">>), 1>>}

DriverRows ==
    {[driverId |-> d, constructorId |-> 1, raceId |-> k[2], date |-> k[1],
      points |-> p, positionOrder |-> NaN, grid |-> Num(0)] :
        d \in {1, 2}, k \in DriverKeys, p \in {NaN, Num(2)}}

InitAgg == Start(Tables(DriverRows), {NoLookup})
NextAgg == AddTimeAwareAggregates \/ FinalClean
SpecAgg == InitAgg /\ [][NextAgg]_vars

(***************************************************************************)
(* The chronological order alone: dates given as dates, as text, missing   *)
(* or unparsable.                                                          *)
(***************************************************************************)
SortRows ==
    [raceId : {1, 2},
     date : {Date(1), Date(2), Str(<<"1">>), Str(<<"x">>), NaN}]

InitSort == Start(Tables(SortRows), {NoLookup})
NextSort == TimeSort
SpecSort == InitSort /\ [][NextSort]_vars

(***************************************************************************)
(* The aggregation engine on constructor histories: two constructors, two  *)
(* drivers, two races, two dates.                                          *)
(***************************************************************************)
ConsRows ==
    [driverId : {1, 2}, constructorId : {1, 2}, raceId : {1, 2},
     date : {Date(1), Date(2)}, points : {Num(1), Num(2)},
     positionOrder : {Num(1)}, grid : {Num(0)}]

\* One row per (driver, race).
OneRowPerDriverRace(t) ==
    \A i, j \in 1..Len(t) :
        (t[i].driverId = t[j].driverId /\ t[i].raceId = t[j].raceId) => i = j

InitCons ==
    Start({t \in Tables(ConsRows) : OneRowPerDriverRace(t)}, {NoLookup})
NextCons == AddTimeAwareAggregates \/ FinalClean
SpecCons == InitCons /\ [][NextCons]_vars

(***************************************************************************)
(* The row-wise stages: raw grid values (numbers, numerals, the sentinel   *)
(* 0, text, missing), finishing positions and status codes, with status    *)
(* lookups of several spellings, one with a duplicated code and none for   *)
(* code 4; tables without a status code, and without a finishing position. *)
(***************************************************************************)
TxtFinished == <<"F", "i", "n", "i", "s", "h", "e", "d">>
TxtFINISHED == <<"F", "I", "N", "I", "S", "H", "E", "D">>
TxtUnfinished == <<"U", "n", "f", "i", "n", "i", "s", "h", "e", "d">>
TxtClassified == <<"c", "l", "a", "s", "s", "i", "f", "i", "e", "d">>
TxtDidNotStart ==
    <<"D", "i", "d", " ", "n", "o", "t", " ", "s", "t", "a", "r", "t">>
TxtCarDidNotStart ==
    <<"C", "a", "r", " ", "D", "I", "D", " ", "N", "O", "T", " ",
      "S", "T", "A", "R", "T">>
TxtCollision == <<"C", "o", "l", "l", "i", "s", "i", "o", "n">>

StatusRow1(id, text) == [statusId |-> id, status |-> Str(text)]

Lookups ==
    {<<StatusRow1(1, TxtFinished), StatusRow1(2, TxtDidNotStart),
       StatusRow1(3, TxtCollision)>>,
     <<StatusRow1(1, TxtFINISHED), StatusRow1(2, TxtCarDidNotStart),
       StatusRow1(3, TxtUnfinished)>>,
     <<StatusRow1(1, TxtClassified), StatusRow1(1, TxtCollision),
       StatusRow1(3, TxtFinished)>>}

StageRows ==
    {[grid |-> Num(0), positionOrder |-> Num(1), points |-> Num(2), statusId |-> 1],
     [grid |-> Str(<<"0">>), positionOrder |-> NaN, points |-> NaN, statusId |-> 2],
     [grid |-> Num(3), positionOrder |-> Num(4), points |-> Num(0), statusId |-> 3],
     [grid |-> Str(<<"1", "2">>), positionOrder |-> Str(<<"x">>),
      points |-> Str(<<"1">>), statusId |-> 1],
     [grid |-> Str(<<"x">>), positionOrder |-> Str(<<"2">>), points |-> Num(1),
      statusId |-> 2],
     [grid |-> NaN, positionOrder |-> Num(3), points |-> Num(1), statusId |-> 4]}

\* The same rows without the statusId column.
PlainRows ==
    {[grid |-> r.grid, positionOrder |-> r.positionOrder, points |-> r.points] :
        r \in StageRows}

\* The same rows with the grid alone.
BareRows == {[grid |-> r.grid] : r \in StageRows}

InitStages ==
    \/ Start(Tables(StageRows), Lookups)
    \/ Start(Tables(PlainRows) \cup Tables(BareRows), {NoLookup})

NextStages ==
    \/ CleanGrid
    \/ AddRaceFeatures
    \/ AttachStatusText
    \/ AddDnfDnsFlags
    \/ FinalClean

SpecStages == InitStages /\ [][NextStages]_vars

(***************************************************************************)
(* The time-based split: years as numbers, as a numeral, fractional and    *)
(* missing, with present and missing feature and target values.            *)
(***************************************************************************)
SplitRows ==
    [year : {Num(1), Num(2), Num(3), Str(<<"2">>), Rat(3, 2), NaN},
     driver_avg_points_past : {NaN, Num(1)},
     points : {NaN, Num(2)}]

InitSplit == Start(Tables(SplitRows), {NoLookup})
NextSplit == TimeBasedSplit
SpecSplit == InitSplit /\ [][NextSplit]_vars

(***************************************************************************)
(* The whole pipeline on Entries that carry every input column.            *)
(***************************************************************************)
PipelineRows ==
    {[driverId |-> 1, constructorId |-> 1, raceId |-> 1, date |-> Date(1),
      year |-> 1, grid |-> Str(<<"0">>), positionOrder |-> Num(1),
      points |-> Num(2), statusId |-> 1],
     [driverId |-> 2, constructorId |-> 1, raceId |-> 1, date |-> Date(1),
      year |-> 1, grid |-> Num(3), positionOrder |-> Str(<<"2">>),
      points |-> NaN, statusId |-> 2],
     [driverId |-> 1, constructorId |-> 1, raceId |-> 2, date |-> Str(<<"2">>),
      year |-> 3, grid |-> NaN, positionOrder |-> NaN,
      points |-> Str(<<"1">>), statusId |-> 4]}

PipelineLookup ==
    <<StatusRow1(1, TxtFinished), StatusRow1(2, TxtDidNotStart),
      StatusRow1(3, TxtCollision)>>

InitPipeline == Start(Tables(PipelineRows), {PipelineLookup})

NextPipeline ==
    \/ CleanGrid
    \/ AddRaceFeatures
    \/ AttachStatusText
    \/ AddDnfDnsFlags
    \/ TimeSort
    \/ AddTimeAwareAggregates
    \/ GetTrainMedians
    \/ FinalClean

SpecPipeline == InitPipeline /\ [][NextPipeline]_vars

(***************************************************************************)
(* The aggregation engine on finishing positions: a driver with up to four *)
(* races, positions present and missing, beside a second driver.           *)
(***************************************************************************)
FinishRows ==
    {[driverId |-> 1, constructorId |-> 1, raceId |-> k[2], date |-> k[1],
      points |-> Num(0), positionOrder |-> p, grid |-> Num(0)] :
        k \in DriverKeys, p \in {NaN, Num(1), Num(3)}}
    \cup
    {[driverId |-> 2, constructorId |-> 1, raceId |-> 1, date |-> Date(2),
      points |-> Num(0), positionOrder |-> p, grid |-> Num(0)] :
        p \in {NaN, Num(1)}}

InitFinish == Start(Tables(FinishRows), {NoLookup})
NextFinish == AddTimeAwareAggregates \/ FinalClean
SpecFinish == InitFinish /\ [][NextFinish]_vars

(***************************************************************************)
(* final_clean applied twice: the four historical columns with present,    *)
(* missing and unparsable values, the four flags as 0, 1, 2, a fraction, a *)
(* numeral and missing, on tables without grid_clean; and tables that hold *)
(* grid_clean already and only some of the columns.                        *)
(***************************************************************************)
HistoryValues ==
    {[year |-> 3, driver_consistency_past |-> NaN, driver_avg_points_past |-> NaN,
      constructor_strength_past |-> NaN, constructor_avg_finish_past |-> NaN],
     [year |-> 1, driver_consistency_past |-> Num(1), driver_avg_points_past |-> Num(2),
      constructor_strength_past |-> Str(<<"x">>),
      constructor_avg_finish_past |-> Num(2)],
     [year |-> 1, driver_consistency_past |-> Num(3), driver_avg_points_past |-> NaN,
      constructor_strength_past |-> Num(1), constructor_avg_finish_past |-> Num(4)]}

FlagValues ==
    {[is_finished |-> NaN, is_dnf |-> Num(1), is_dns |-> Str(<<"0">>),
      is_podium |-> Num(2)],
     [is_finished |-> Num(1), is_dnf |-> NaN, is_dns |-> Num(0),
      is_podium |-> Rat(3, 2)],
     [is_finished |-> Num(2), is_dnf |-> Num(0), is_dns |-> NaN,
      is_podium |-> Num(1)]}

FinalRows ==
    {[year |-> h.year,
      driver_consistency_past |-> h.driver_consistency_past,
      driver_avg_points_past |-> h.driver_avg_points_past,
      constructor_strength_past |-> h.constructor_strength_past,
      constructor_avg_finish_past |-> h.constructor_avg_finish_past,
      is_finished |-> f.is_finished, is_dnf |-> f.is_dnf,
      is_dns |-> f.is_dns, is_podium |-> f.is_podium,
      grid |-> Str(<<"0">>)] :
        h \in HistoryValues, f \in FlagValues}

\* Tables with grid_clean (a zero included), one historical column and one
\* flag.
PartialRows ==
    [year : {1}, grid_clean : {Num(0)},
     driver_consistency_past : {NaN, Num(1)},
     is_podium : {NaN, Rat(-3, 2)}]

InitFinal == Start(Tables(FinalRows) \cup Tables(PartialRows), {NoLookup})
NextFinal == GetTrainMedians \/ FinalClean \/ FinalCleanAgain
SpecFinal == InitFinal /\ [][NextFinal]_vars

(***************************************************************************)
(* The training medians: tables that already hold the historical columns,  *)
(* with years inside and outside the two year ranges.                      *)
(***************************************************************************)
MedianRows ==
    [year : {1, 3},
     driver_consistency_past : {NaN, Num(1), Num(3)},
     constructor_avg_finish_past : {NaN, Num(2)},
     grid : {Num(1)}]

InitMedians == Start(Tables(MedianRows), {NoLookup})
NextMedians == GetTrainMedians \/ FinalClean
SpecMedians == InitMedians /\ [][NextMedians]_vars

(***************************************************************************)
(* Properties.  Entries are the rows of the table handed to a stage        *)
(* (prev); an output row e stems from the Entry numbered e.row.            *)
(***************************************************************************)
Sorted == last = "_time_sort"
Aggregated == last = "add_time_aware_aggregates"

\* Equal on both sort keys (two missing dates are equal).
SameKey(a, b) == to_datetime(a.date) = to_datetime(b.date) /\ a.raceId = b.raceId

\* a is strictly earlier than b by (date, then raceId), an Entry without a
\* date coming after every dated Entry.
Earlier(a, b) ==
    LET da == to_datetime(a.date)
        db == to_datetime(b.date)
    IN  \/ da.t = "date" /\ db.t = "date" /\ da.n < db.n
        \/ da.t = "date" /\ db.t = "nat"
        \/ da = db /\ a.raceId < b.raceId

\* The same order with an Entry without a date coming before every dated
\* Entry.
EarlierMissingFirst(a, b) ==
    LET da == to_datetime(a.date)
        db == to_datetime(b.date)
    IN  \/ da.t = "date" /\ db.t = "date" /\ da.n < db.n
        \/ da.t = "nat" /\ db.t = "date"
        \/ da = db /\ a.raceId < b.raceId

\* The output holds every Entry once, with its date parsed.
SameEntries ==
    /\ Len(df) = Len(prev)
    /\ {df[i].row : i \in 1..Len(df)} = 1..Len(prev)
    /\ \A i \in 1..Len(df) :
          df[i] = With(prev[df[i].row], "date", to_datetime(prev[df[i].row].date))

\* C9 as stated: _time_sort orders by date ascending, then raceId ascending,
\* keeps the input order of Entries equal on both keys, and puts an Entry
\* whose date is missing or unparsable before every Entry with a valid date.
C9_MissingDateFirst ==
    Sorted =>
        /\ SameEntries
        /\ \A i, j \in 1..Len(df) :
              i < j =>
                  /\ ~EarlierMissingFirst(df[j], df[i])
                  /\ SameKey(df[i], df[j]) => df[i].row < df[j].row

\* C9 amended: _time_sort orders by date ascending, then raceId ascending,
\* keeps the input order of Entries equal on both keys, and puts an Entry
\* whose date is missing or unparsable after every Entry with a valid date.
C9_MissingDateLast ==
    Sorted =>
        /\ SameEntries
        /\ \A i, j \in 1..Len(df) :
              i < j =>
                  /\ ~Earlier(df[j], df[i])
                  /\ SameKey(df[i], df[j]) => df[i].row < df[j].row

\* A sort that moved an undated Entry from the front to behind a dated one,
\* ordered two Entries of one date by raceId, and kept a tie in input order.
C9_Witness ==
    /\ Sorted
    /\ Len(df) = 3
    /\ prev[1].date = Str(<<"x">>)
    /\ df[3].row = 1
    /\ df[1].date = df[2].date
    /\ df[1].date.t = "date"
    /\ \E i, j \in 1..Len(prev) : i < j /\ SameKey(prev[i], prev[j])

\* The Entries of e's driver that precede e in the stable chronological
\* order: strictly earlier, or equal on both keys and earlier in the input.
History(e) ==
    {j \in 1..Len(prev) :
        /\ prev[j].driverId = e.driverId
        /\ \/ Earlier(prev[j], e)
           \/ SameKey(prev[j], e) /\ j < e.row}

\* C5: the i-th Entry (from 0) of a driver in chronological (date, raceId)
\* order, Entries without a date last and ties in input order, has
\* driver_races_past = i, however the other drivers' Entries are interleaved.
C5_RacesPastIsRank ==
    Aggregated =>
        \A i \in 1..Len(df) :
            df[i].driver_races_past = Num(Cardinality(History(df[i])))

\* A driver's second Entry, given first and with another driver's Entry
\* between the two in time.
C5_Witness ==
    /\ Aggregated
    /\ Len(prev) = 3
    /\ \E i, j, k \in 1..Len(df) :
          /\ i < j /\ j < k
          /\ df[i].driverId = df[k].driverId
          /\ df[j].driverId # df[i].driverId
          /\ df[k].row = 1
          /\ df[k].driver_races_past = Num(1)
          /\ df[j].driver_races_past = Num(0)

\* The Entries of e's driver strictly earlier than e by (date, then raceId).
StrictHistory(e) ==
    {j \in 1..Len(prev) : prev[j].driverId = e.driverId /\ Earlier(prev[j], e)}

\* points with a missing or unparsable value counted as 0.0
PointsOf(e) == fillna(to_numeric(e.points), Num(0))

RECURSIVE SumPoints(_)
SumPoints(S) ==
    IF S = {} THEN Num(0)
    ELSE LET j == CHOOSE k \in S : TRUE
         IN  RatAdd(PointsOf(prev[j]), SumPoints(S \ {j}))

MeanPoints(S) == IF S = {} THEN NaN ELSE RatDivInt(SumPoints(S), Cardinality(S))

\* One row per driver per race: no two Entries of the driver are equal on
\* (date, raceId).
OnePerRace(d) ==
    \A j, k \in 1..Len(prev) :
        (j # k /\ prev[j].driverId = d /\ prev[k].driverId = d)
            => ~SameKey(prev[j], prev[k])

\* C2: for every Entry E of a driver with one row per race,
\* driver_avg_points_past(E) is the mean of points (missing counted as 0.0)
\* over exactly the Entries of the same driver strictly earlier than E by
\* (date, then raceId), Entries without a date last; it is missing when there
\* is none.
C2_AvgPointsOverStrictPast ==
    Aggregated =>
        \A i \in 1..Len(df) :
            OnePerRace(df[i].driverId) =>
                df[i].driver_avg_points_past = MeanPoints(StrictHistory(df[i]))

\* A driver with one row per race whose third Entry averages an earlier
\* missing points value (0.0) and an earlier 2 to 1.
C2_Witness ==
    /\ Aggregated
    /\ \E i \in 1..Len(df) :
          /\ OnePerRace(df[i].driverId)
          /\ Cardinality(StrictHistory(df[i])) = 2
          /\ df[i].driver_avg_points_past = Num(1)
          /\ df[i].row = 1

\* The number of rows of t that stem from the Entry numbered id.
RowCount(t, id) == Cardinality({i \in 1..Len(t) : t[i].row = id})

\* C8: every stage returns exactly one output row per input row, none
\* duplicated and none dropped, also when a join key has several matches.
C8_OneRowPerInputRow ==
    last \notin {"input", "get_train_medians"} =>
        /\ Len(df) = Len(prev)
        /\ \A i \in 1..Len(prev) :
              RowCount(df, prev[i].row) = RowCount(prev, prev[i].row)

\* C1: two distinct Entries of one constructor in one race have equal
\* constructor_strength_past and equal constructor_avg_finish_past.
C1_TeammatesAgree ==
    Aggregated =>
        \A i, j \in 1..Len(df) :
            (/\ df[i].row # df[j].row
             /\ df[i].raceId = df[j].raceId
             /\ df[i].constructorId = df[j].constructorId)
                => /\ df[i].constructor_strength_past
                        = df[j].constructor_strength_past
                   /\ df[i].constructor_avg_finish_past
                        = df[j].constructor_avg_finish_past

\* The Entries of e's constructor in other races that are strictly earlier
\* than e, and the races they belong to.
EarlierTeamEntries(e) ==
    {j \in 1..Len(prev) :
        /\ prev[j].constructorId = e.constructorId
        /\ prev[j].raceId # e.raceId
        /\ Earlier(prev[j], e)}

PriorRaces(e) == {prev[j].raceId : j \in EarlierTeamEntries(e)}

\* All Entries of e's constructor in its prior races.
PriorRaceEntries(e) ==
    {j \in 1..Len(prev) :
        /\ prev[j].constructorId = e.constructorId
        /\ prev[j].raceId \in PriorRaces(e)}

\* C3: constructor_strength_past(E) is the mean, over the distinct races of
\* E's constructor strictly earlier than E's race, of the per-race sum of
\* points of all the constructor's Entries in that race; it is missing when
\* the constructor has no earlier race.
C3_StrengthIsMeanOfRaceSums ==
    Aggregated =>
        \A i \in 1..Len(df) :
            df[i].constructor_strength_past =
                IF PriorRaces(df[i]) = {} THEN NaN
                ELSE RatDivInt(SumPoints(PriorRaceEntries(df[i])),
                               Cardinality(PriorRaces(df[i])))

\* e is the chronologically first Entry of its driver among the rows of t.
FirstOfDriver(t, e) ==
    \A k \in 1..Len(t) :
        (t[k].driverId = e.driverId /\ t[k].row # e.row)
            => ~(\/ Earlier(t[k], e)
                 \/ SameKey(t[k], e) /\ t[k].row < e.row)

\* e belongs to the chronologically first race of its constructor among the
\* rows of t.
FirstRaceOfConstructor(t, e) ==
    \A k \in 1..Len(t) :
        (t[k].constructorId = e.constructorId /\ t[k].raceId # e.raceId)
            => ~Earlier(t[k], e)

\* C4: a driver's first Entry has driver_races_past = 0 and
\* driver_avg_points_past missing after add_time_aware_aggregates and 0.0
\* after final_clean; the Entries of a constructor's first race have
\* constructor_strength_past missing before and 0.0 after.
C4_FirstEntryMissingThenZero ==
    /\ Aggregated =>
          \A i \in 1..Len(df) :
              /\ FirstOfDriver(prev, df[i]) =>
                    /\ df[i].driver_races_past = Num(0)
                    /\ df[i].driver_avg_points_past = NaN
              /\ FirstRaceOfConstructor(prev, df[i]) =>
                    df[i].constructor_strength_past = NaN
    /\ (last = "final_clean" /\ "add_time_aware_aggregates" \in applied) =>
          \A i \in 1..Len(df) :
              /\ FirstOfDriver(prev, prev[i]) =>
                    df[i].driver_avg_points_past = Num(0)
              /\ FirstRaceOfConstructor(prev, prev[i]) =>
                    df[i].constructor_strength_past = Num(0)

\* What clean_grid is to make of a raw grid value: missing for the sentinel
\* 0 (the number or the numeral) and for anything that is no number, the
\* number itself otherwise.
ExpectedGridClean(raw) ==
    LET v == to_numeric(raw)
    IN  IF v.t = "num" /\ v.n # 0 THEN v ELSE NaN

\* C6: grid_clean is missing or a non-zero number wherever it exists; the
\* stage that creates it (clean_grid, or add_race_features or final_clean
\* ensuring it) makes it missing for a raw grid of 0, "0" or an unparsable
\* value and keeps every other number.
C6_GridCleanNeverZero ==
    /\ "grid_clean" \in Cols(df) =>
          \A i \in 1..Len(df) :
              \/ df[i].grid_clean = NaN
              \/ df[i].grid_clean.t = "num" /\ df[i].grid_clean.n # 0
    /\ ("grid_clean" \in Cols(df) /\ "grid_clean" \notin Cols(prev)) =>
          /\ last \in {"clean_grid", "add_race_features", "final_clean"}
          /\ \A i \in 1..Len(df) :
                df[i].grid_clean = ExpectedGridClean(prev[i].grid)

\* grid_clean made by each of the three stages, from the sentinel as a
\* number and as a numeral, from text, and from a number that is kept.
C6_Witness ==
    /\ last = "final_clean"
    /\ "grid_clean" \notin Cols(prev)
    /\ Len(df) = 3
    /\ prev[1].grid = Str(<<"0">>) /\ df[1].grid_clean = NaN
    /\ prev[2].grid = Str(<<"1", "2">>) /\ df[2].grid_clean = Num(12)
    /\ prev[3].grid = Num(0) /\ df[3].grid_clean = NaN

\* The outcome the classification rule gives each status text of the
\* lookups; a missing text is none of the listed ones.
ExpectedOutcome(c) ==
    IF c \in {Str(TxtFinished), Str(TxtFINISHED), Str(TxtClassified)}
    THEN "finished"
    ELSE IF c \in {Str(TxtDidNotStart), Str(TxtCarDidNotStart)}
    THEN "dns"
    ELSE "dnf"

Flags(r) == <<r.is_finished, r.is_dnf, r.is_dns>>

\* C10: after add_dnf_dns_flags on a table with status_text, exactly one of
\* is_finished, is_dnf, is_dns is 1 and the others are 0: finished for text
\* equal to "finished" or "classified" whatever the case, did-not-start for
\* text containing "did not start", did-not-finish for everything else;
\* without status_text, is_finished = 1 exactly when positionOrder is
\* present, and is_dnf = is_dns = 0.
C10_FlagsExclusive ==
    last = "add_dnf_dns_flags" =>
        \A i \in 1..Len(df) :
            IF "status_text" \in Cols(prev)
            THEN Flags(df[i]) =
                    CASE ExpectedOutcome(prev[i].status_text) = "finished"
                            -> <<Num(1), Num(0), Num(0)>>
                      [] ExpectedOutcome(prev[i].status_text) = "dns"
                            -> <<Num(0), Num(0), Num(1)>>
                      [] OTHER -> <<Num(0), Num(1), Num(0)>>
            ELSE Flags(df[i]) =
                    IF "positionOrder" \in Cols(prev) /\ NotNA(prev[i].positionOrder)
                    THEN <<Num(1), Num(0), Num(0)>>
                    ELSE <<Num(0), Num(0), Num(0)>>

\* One table with a finished (upper case), a did-not-start (inside a longer
\* text) and a did-not-finish ("Unfinished") Entry.
C10_Witness ==
    /\ last = "add_dnf_dns_flags"
    /\ "status_text" \in Cols(prev)
    /\ Len(df) = 3
    /\ prev[1].status_text = Str(TxtFINISHED) /\ df[1].is_finished = Num(1)
    /\ prev[2].status_text = Str(TxtCarDidNotStart) /\ df[2].is_dns = Num(1)
    /\ prev[3].status_text = Str(TxtUnfinished) /\ df[3].is_dnf = Num(1)

\* C7: get_train_medians with a year range that selects no row fails; it
\* does not return missing medians.
C7_EmptyRangeRaises ==
    (/\ last = "get_train_medians"
     /\ TrainRows(df, medians.years[1], medians.years[2]) = <<>>)
        => medians.raised

\* The rows of the table given to the last call whose column c is present.
Filled(c) == {i \in 1..Len(prev) : NotNA(prev[i][c])}

Below(c, i) ==
    Cardinality({j \in Filled(c) : RatLess(prev[j][c], prev[i][c])})

Above(c, i) ==
    Cardinality({j \in Filled(c) : RatLess(prev[i][c], prev[j][c])})

\* The median of the present values of column c: the mean of the lower and
\* the upper middle value (the same value when their number is odd), missing
\* when no value is present.
OwnMedian(c) ==
    LET n == Cardinality(Filled(c))
        lo == CHOOSE i \in Filled(c) :
                  Below(c, i) <= (n - 1) \div 2 /\ Above(c, i) <= n \div 2
        hi == CHOOSE i \in Filled(c) :
                  Below(c, i) <= n \div 2 /\ Above(c, i) <= (n - 1) \div 2
    IN  IF n = 0 THEN NaN
        ELSE RatDivInt(RatAdd(prev[lo][c], prev[hi][c]), 2)

ExpectedFill(c, v) ==
    IF NotNA(v) THEN v
    ELSE IF c \in DOMAIN medians_arg THEN medians_arg[c]
    ELSE OwnMedian(c)

\* C11: final_clean leaves every present value of driver_consistency_past
\* and constructor_avg_finish_past unchanged and fills every missing one with
\* the value train_medians supplies for that column when it supplies one,
\* otherwise with the median of the column's own present values; the choice
\* is made for each column separately.
C11_MedianFill ==
    last = "final_clean" =>
        \A c \in MedianColumns \cap Cols(prev) :
            \A i \in 1..Len(df) : df[i][c] = ExpectedFill(c, prev[i][c])

\* One call that fills driver_consistency_past from train_medians (3, where
\* the column's own median is 2) and constructor_avg_finish_past, which
\* train_medians does not supply, from the column's own median.
C11_Witness ==
    /\ last = "final_clean"
    /\ DOMAIN medians_arg = {"driver_consistency_past"}
    /\ OwnMedian("driver_consistency_past") = Num(2)
    /\ \E i \in 1..Len(df) :
          /\ IsNA(prev[i].driver_consistency_past)
          /\ IsNA(prev[i].constructor_avg_finish_past)
          /\ df[i].driver_consistency_past = Num(3)
          /\ df[i].constructor_avg_finish_past = Num(2)
          /\ \E j \in 1..Len(df) : df[j].driver_consistency_past = Num(1)

\* The rows of the table given to time_based_split whose feature, target
\* and year values are all present and whose year lies within yrs.
Selected(yrs) ==
    LET a == split.args
    IN  {i \in 1..Len(prev) :
            /\ \A c \in a.feature_cols \cup {a.target_col} : NotNA(prev[i][c])
            /\ Between(to_numeric(prev[i][a.year_col]), yrs[1], yrs[2])}

\* The input rows a returned table is made of.
RowsOf(t) == {t[k].row : k \in 1..Len(t)}

\* The call returned, with exactly the selected rows on each side.
SplitReturned(train, test) ==
    /\ split.raised = "none"
    /\ RowsOf(split.X_train) = train /\ RowsOf(split.y_train) = train
    /\ RowsOf(split.X_test) = test /\ RowsOf(split.y_test) = test

\* The call failed with a ValueError whose message gives the row count of
\* each side.
SplitRaisedWithCounts(train, test) ==
    /\ split.raised = "ValueError"
    /\ split.message.train_rows = Cardinality(train)
    /\ split.message.test_rows = Cardinality(test)

\* An empty side is an error with the two counts, and otherwise both sides
\* are returned non-empty, every row within its year range.
SplitNeverEmpty ==
    (last = "time_based_split" /\ split.raised \in {"none", "ValueError"}) =>
        LET train == Selected(split.args.train_years)
            test == Selected(split.args.test_years)
        IN  IF train = {} \/ test = {}
            THEN SplitRaisedWithCounts(train, test)
            ELSE SplitReturned(train, test)

\* C12: time_based_split never returns an empty partition: when the train or
\* the test year range selects no row it fails with an error that reports
\* the row count of each side and the year ranges used; otherwise every
\* returned train row has its year within train_years and every returned
\* test row within test_years.
C12_SplitErrorNamesCriteria ==
    /\ SplitNeverEmpty
    /\ (last = "time_based_split" /\ split.raised = "ValueError") =>
          {"train_years", "test_years"} \subseteq DOMAIN split.message

\* The stages of the pipeline that may not touch what they are given.
PureStages ==
    {"clean_grid", "add_race_features", "attach_status_text",
     "add_dnf_dns_flags", "_time_sort", "add_time_aware_aggregates",
     "final_clean", "get_train_medians"}

\* The stages that return a table.
TableStages == PureStages \ {"get_train_medians"}

\* C13: after a call of any stage the table that was passed in has the rows,
\* row order, columns and values it had before the call, and so has the
\* status lookup; additions and coercions are in the returned table only.
C13_InputsUnchanged ==
    /\ last \in PureStages =>
          /\ passed.df = prev
          /\ passed.status_df = status_df
    /\ last \in TableStages => passed.returned = df

\* A call of add_time_aware_aggregates that reorders the rows and parses a
\* textual date in the table it returns, on a status lookup that an earlier
\* attach_status_text has used, with the table passed in as it was.
C13_Witness ==
    /\ last = "add_time_aware_aggregates"
    /\ "attach_status_text" \in applied
    /\ "status_text" \in Cols(df)
    /\ "status" \in Cols(passed.status_df)
    /\ passed.df = prev
    /\ passed.returned = df
    /\ passed.returned # passed.df
    /\ \E i \in 1..Len(prev) :
          /\ prev[i].date.t = "str"
          /\ df[Len(df)].row = prev[i].row
          /\ df[Len(df)].date.t = "date"
          /\ i < Len(prev)

\* The Entries of e's driver strictly earlier than e whose positionOrder is
\* present.
PriorFinishes(e) ==
    {j \in StrictHistory(e) : NotNA(to_numeric(prev[j].positionOrder))}

\* The sum over S of positionOrder (squared when sq).
RECURSIVE SumPositions(_, _)
SumPositions(S, sq) ==
    IF S = {} THEN Num(0)
    ELSE LET j == CHOOSE k \in S : TRUE
             x == to_numeric(prev[j].positionOrder)
         IN  RatAdd(IF sq THEN RatMul(x, x) ELSE x, SumPositions(S \ {j}, sq))

\* The population variance: the mean of the squares less the square of the
\* mean.
PopulationVariance(S) ==
    LET n == Cardinality(S)
        mean == RatDivInt(SumPositions(S, FALSE), n)
    IN  RatSub(RatDivInt(SumPositions(S, TRUE), n), RatMul(mean, mean))

\* c is the non-negative number whose square is q.
IsRootOf(c, q) ==
    /\ c.t \in {"num", "sqrt"}
    /\ c.t = "num" => c.n >= 0
    /\ Square(c) = q

\* C14: for every Entry E of a driver with one row per race,
\* driver_consistency_past(E) is missing when no strictly earlier Entry of
\* the driver has a positionOrder, and is otherwise the population standard
\* deviation of the positionOrder values present in those earlier Entries
\* (0 for a single value); missing earlier values are left out, not counted
\* as 0.
C14_ConsistencyIsPopulationStd ==
    Aggregated =>
        \A i \in 1..Len(df) :
            OnePerRace(df[i].driverId) =>
                IF PriorFinishes(df[i]) = {}
                THEN df[i].driver_consistency_past = NaN
                ELSE IsRootOf(df[i].driver_consistency_past,
                              PopulationVariance(PriorFinishes(df[i])))

\* A driver whose first Entry has no positionOrder and whose second has 3:
\* the consistency is missing at the first and the second Entry and 0 at
\* the third.
C14_Witness ==
    /\ Aggregated
    /\ Len(df) = 3
    /\ \A i \in 1..3 : df[i].driverId = 1
    /\ OnePerRace(1)
    /\ IsNA(df[1].positionOrder) /\ df[2].positionOrder = Num(3)
    /\ df[1].driver_consistency_past = NaN
    /\ df[2].driver_consistency_past = NaN
    /\ df[3].driver_consistency_past = Num(0)

\* Two earlier positions 1 and 3 give the deviation 1.
C14_TwoValues ==
    /\ Aggregated
    /\ \E i \in 1..Len(df) :
          /\ OnePerRace(df[i].driverId)
          /\ Cardinality(PriorFinishes(df[i])) = 2
          /\ df[i].driver_consistency_past = Num(1)

ZeroFilled == {"driver_avg_points_past", "constructor_strength_past"}

FlagColumns == {"is_finished", "is_dnf", "is_dns", "is_podium"}

\* A second pass returns the table the first returned, and after one pass
\* the zero-filled columns hold numbers only.
IdempotentAndZeroFilled ==
    /\ last = "final_clean_again" => df = prev
    /\ last = "final_clean" =>
          \A i \in 1..Len(df) :
              \A c \in ZeroFilled \cap Cols(df) : df[i][c].t = "num"

\* C15 as stated: a second final_clean with the same train_medians returns
\* the table the first returned; and after one pass driver_avg_points_past
\* and constructor_strength_past hold no missing value and every flag
\* column in the table holds the integer 0 or 1.
C15_FlagsZeroOrOne ==
    /\ IdempotentAndZeroFilled
    /\ last = "final_clean" =>
          \A i \in 1..Len(df) :
              \A c \in FlagColumns \cap Cols(df) : df[i][c] \in {Num(0), Num(1)}

\* x with its fraction dropped: the integer between 0 and x nearest to x.
TowardZero(x) ==
    LET k == CHOOSE j \in (-Abs(x.n))..Abs(x.n) :
                 IF x.n >= 0
                 THEN j * x.d <= x.n /\ x.n < (j + 1) * x.d
                 ELSE (j - 1) * x.d < x.n /\ x.n <= j * x.d
    IN  Num(k)

\* The integer final_clean makes of a flag: 0 of a missing or unparsable
\* one, the number without its fraction otherwise.
ExpectedFlag(v) ==
    IF to_numeric(v).t = "num" THEN TowardZero(to_numeric(v)) ELSE Num(0)

IsBinaryOrMissing(v) == to_numeric(v) \in {NaN, Num(0), Num(1)}

\* C15, amended: a second final_clean with the same train_medians returns
\* the table the first returned; after one pass driver_avg_points_past and
\* constructor_strength_past hold no missing value and every flag column in
\* the table holds an integer: 0 for a missing flag, otherwise the flag's
\* value without its fraction, hence 0 or 1 for every flag that was 0, 1 or
\* missing; a flag outside 0..1 is not brought into it.
C15_FinalCleanIdempotent ==
    /\ IdempotentAndZeroFilled
    /\ last = "final_clean" =>
          \A i \in 1..Len(df) :
              \A c \in FlagColumns \cap Cols(df) :
                  /\ df[i][c] = ExpectedFlag(prev[i][c])
                  /\ IsBinaryOrMissing(prev[i][c]) => df[i][c] \in {Num(0), Num(1)}

\* A second pass over a table in which the first has filled a consistency
\* with the median 2 of 1 and 3, an average and a strength with 0, a
\* missing flag with 0, kept a flag of 2 and made grid_clean.
C15_Witness ==
    /\ last = "final_clean_again"
    /\ df = prev
    /\ "grid_clean" \in Cols(df)
    /\ medians_arg = NoMedians
    /\ \E i \in 1..Len(df) :
          /\ df[i].driver_consistency_past = Num(2)
          /\ df[i].driver_avg_points_past = Num(0)
          /\ df[i].constructor_strength_past = Num(0)
          /\ df[i].is_finished = Num(0)
          /\ df[i].is_podium = Num(2)
          /\ df[i].grid_clean = NaN

====
